---- MODULE Spec2Model ----
(***************************************************************************)
(* Model of tools/generate_taxonomy_yaml.py: the chunker (chunk_text), the *)
(* retrying backend call (call_model), the per-document coroutine          *)
(* (process_file) running under an asyncio.Semaphore, and the driver       *)
(* (main) that gathers one process_file task per discovered file.          *)
(*                                                                         *)
(* Texts, file stems and slugs are sequences of one-character strings.     *)
(* asyncio runs one coroutine at a time until it awaits: the awaits of a   *)
(* task are the semaphore acquisition and call_model; everything between   *)
(* two awaits runs without interleaving (see CanRun).                      *)
(***************************************************************************)
EXTENDS Integers, Sequences, FiniteSets, TLC

VARIABLES
    provider,     \* args.provider
    apiKey,       \* args.api_key
    environ,      \* os.environ.get("OPENAI_API_KEY")
    concurrency,  \* args.concurrency
    maxTokens,    \* args.max_tokens
    inputTree,    \* the *.md files below args.input_dir (documents of Catalogue)
    mainpc,       \* position of main()
    warned,       \* main() logged "No markdown files found."
    files,        \* main(): files
    sem,          \* asyncio.Semaphore._value, NoSem before it is created
    pc,           \* position of each process_file task
    idx,          \* process_file: the loop variable i (Unbound before the loop)
    calls,        \* per chunk job: backend attempts started
    fails,        \* per chunk job: backend attempts that failed
    got,          \* per chunk job: call_model returned an output
    written,      \* per chunk job: "none", "qna" (qna.yaml written), "both"
    failed,       \* chunk jobs whose failure was caught by process_file
    errlog,       \* logging.error lines: (file name, chunk number) -> count
    qna,          \* output tree: content of <slug>-part-<k>/qna.yaml
    attrib,       \* output tree: <slug>-part-<k>/attribution.txt, <<source document>>
    qnaWriters,   \* per qna.yaml path: the jobs that wrote it
    ctext,        \* chunk_text on its own: the text it is given
    climit,       \* chunk_text on its own: the limit it is given
    cparts,       \* chunk_text on its own: the chunks returned
    cstate        \* chunk_text on its own: "idle", "input" or "done"

pipeVars == <<provider, apiKey, environ, concurrency, maxTokens, inputTree,
              mainpc, warned, files, sem, pc, idx, calls, fails, got, written,
              failed, errlog, qna, attrib, qnaWriters>>
chunkVars == <<ctext, climit, cparts, cstate>>
vars == <<pipeVars, chunkVars>>

----------------------------------------------------------------------------
(* Bounds *)

MaxN == 2
MaxDocs == 2
MaxTextLen == 4
MaxLimit == 3

(* Program constants *)

MaxAttempts == 3
CharsPerToken == 4

NL == "\n"
NoKey == "None"
NoSem == -1
Unbound == -1
Nothing == <<>>

----------------------------------------------------------------------------
(* str.splitlines, "\n".join and chunk_text *)

RECURSIVE SplitLoop(_, _, _)
SplitLoop(text, cur, acc) ==
    IF text = <<>>
    THEN IF cur # <<>> THEN Append(acc, cur) ELSE acc
    ELSE IF Head(text) = NL
         THEN SplitLoop(Tail(text), <<>>, Append(acc, cur))
         ELSE SplitLoop(Tail(text), Append(cur, Head(text)), acc)

\* text.splitlines(): the lines of text; a final line break opens no line
splitlines(text) == SplitLoop(text, <<>>, <<>>)

RECURSIVE join(_)
\* "\n".join(lines)
join(lines) ==
    IF lines = <<>> THEN <<>>
    ELSE IF Len(lines) = 1 THEN Head(lines)
    ELSE Head(lines) \o <<NL>> \o join(Tail(lines))

\* chunk_text line 88: the test that seals the pending group before a line
SealBefore(current, total, line_len, limit) == total + line_len > limit

RECURSIVE ChunkLoopAlwaysSeals(_, _, _, _, _)
\* chunk_text that seals the pending group at the end even when it is empty
ChunkLoopAlwaysSeals(lines, limit, parts, current, total) ==
    IF lines = <<>>
    THEN Append(parts, join(current))
    ELSE LET line == Head(lines)
             line_len == Len(line)
             seal == SealBefore(current, total, line_len, limit)
             parts1 == IF seal THEN Append(parts, join(current)) ELSE parts
             current1 == IF seal THEN <<>> ELSE current
             total1 == IF seal THEN 0 ELSE total
         IN  ChunkLoopAlwaysSeals(Tail(lines), limit, parts1,
                                  Append(current1, line), total1 + line_len)

RECURSIVE ChunkLoop(_, _, _, _, _)
ChunkLoop(lines, limit, parts, current, total) ==
    IF lines = <<>>
    THEN IF current # <<>> THEN Append(parts, join(current)) ELSE parts
    ELSE LET line == Head(lines)
             line_len == Len(line)
             seal == SealBefore(current, total, line_len, limit)
             parts1 == IF seal THEN Append(parts, join(current)) ELSE parts
             current1 == IF seal THEN <<>> ELSE current
             total1 == IF seal THEN 0 ELSE total
         IN  ChunkLoop(Tail(lines), limit, parts1,
                       Append(current1, line), total1 + line_len)

chunk_text(text, limit) == ChunkLoop(splitlines(text), limit, <<>>, <<>>, 0)

----------------------------------------------------------------------------
(* slugify(file_path.stem) *)

Lower(c) == IF c = "A" THEN "a" ELSE IF c = "B" THEN "b" ELSE c
IsAlnum(c) == c \in {"a", "b", "A", "B"}

RECURSIVE SlugLoop(_, _)
\* lower-case the letters and digits, turn every run of other characters into
\* one "-", keep no "-" at the start
SlugLoop(s, acc) ==
    IF s = <<>> THEN acc
    ELSE IF IsAlnum(Head(s))
         THEN SlugLoop(Tail(s), Append(acc, Lower(Head(s))))
         ELSE IF acc = <<>> \/ acc[Len(acc)] = "-"
              THEN SlugLoop(Tail(s), acc)
              ELSE SlugLoop(Tail(s), Append(acc, "-"))

StripDash(s) ==
    IF s # <<>> /\ s[Len(s)] = "-" THEN SubSeq(s, 1, Len(s) - 1) ELSE s

slugify(stem) == StripDash(SlugLoop(stem, <<>>))

----------------------------------------------------------------------------
(* The documents an input tree is drawn from: directory below the input   *)
(* root, file stem (the name is stem + ".md") and text.                   *)

Catalogue ==
    <<[dir |-> "x", stem |-> <<"a">>,
       text |-> <<"a", "a", "a", NL, "a", "a">>],
      [dir |-> "y", stem |-> <<"a">>,
       text |-> <<"a", "a">>],
      [dir |-> "x", stem |-> <<"A", " ", "b">>,
       text |-> <<>>],
      [dir |-> "x", stem |-> <<"a", "-", "b">>,
       text |-> <<"a", "a", "a", "a", "a">>]>>

Docs == DOMAIN Catalogue
TokenChoices == {1, 2}

\* the largest number of chunks a document of Catalogue is cut into
MaxChunks ==
    CHOOSE n \in 0..8 :
        /\ \A d \in Docs, m \in TokenChoices :
               Len(chunk_text(Catalogue[d].text, m * CharsPerToken)) <= n
        /\ \E d \in Docs, m \in TokenChoices :
               Len(chunk_text(Catalogue[d].text, m * CharsPerToken)) = n
ChunkIdx == 1..MaxChunks
Jobs == Docs \X ChunkIdx
Names == {Catalogue[d].stem : d \in Docs}
LogKeys == Names \X ChunkIdx

\* a directory name that does not carry the chunk's own number
OutPathFirstPart(d, k) == <<slugify(Catalogue[d].stem), 1>>

\* process_file lines 154-155: the directory of job (d, k) below
\* output_dir/mode/domain
OutPath(d, k) == <<slugify(Catalogue[d].stem), k>>
Paths == {OutPath(j[1], j[2]) : j \in Jobs}

----------------------------------------------------------------------------
(* process_file *)

\* process_file line 150: chunk_text(content, limit=args.max_tokens * 4)
Chunks(d) == chunk_text(Catalogue[d].text, maxTokens * CharsPerToken)

\* the chunk job task t is working on: enumerate's i is 0-based, parts are
\* numbered i+1
CurJob(t) == <<t, idx[t] + 1>>

\* positions of a task between two awaits
SyncPcs == {"read", "write_qna", "write_attr"}
Finished == {"done", "crashed", "cancelled"}

\* the event loop resumes a task only when no other task is between awaits
CanRun(t) == \A u \in Docs \ {t} : pc[u] \notin SyncPcs
MainCanRun == \A u \in Docs : pc[u] \notin SyncPcs

\* Acquire that does not wait for a free slot
AcquireNoWait(t) ==
    /\ pc[t] = "created"
    /\ CanRun(t)
    /\ sem' = sem - 1
    /\ pc' = [pc EXCEPT ![t] = "read"]
    /\ UNCHANGED <<provider, apiKey, environ, concurrency, maxTokens,
                   inputTree, mainpc, warned, files, idx, calls, fails, got,
                   written, failed, errlog, qna, attrib, qnaWriters,
                   chunkVars>>

\* async with semaphore (line 146): acquire, waiting while the value is 0
Acquire(t) ==
    /\ pc[t] = "created"
    /\ CanRun(t)
    /\ sem > 0
    /\ sem' = sem - 1
    /\ pc' = [pc EXCEPT ![t] = "read"]
    /\ UNCHANGED <<provider, apiKey, environ, concurrency, maxTokens,
                   inputTree, mainpc, warned, files, idx, calls, fails, got,
                   written, failed, errlog, qna, attrib, qnaWriters,
                   chunkVars>>

\* lines 149-153: the file is read and chunked; with no chunk the loop body
\* never runs and the semaphore is released, else the first call_model starts
ReadOk(t) ==
    /\ pc[t] = "read"
    /\ IF Len(Chunks(t)) = 0
       THEN /\ pc' = [pc EXCEPT ![t] = "done"]
            /\ sem' = sem + 1
            /\ UNCHANGED <<idx, calls>>
       ELSE /\ pc' = [pc EXCEPT ![t] = "call"]
            /\ idx' = [idx EXCEPT ![t] = 0]
            /\ calls' = [calls EXCEPT ![<<t, 1>>] = 1]
            /\ UNCHANGED sem
    /\ UNCHANGED <<provider, apiKey, environ, concurrency, maxTokens,
                   inputTree, mainpc, warned, files, fails, got, written,
                   failed, errlog, qna, attrib, qnaWriters, chunkVars>>

\* line 149 raises (unreadable file, not UTF-8): the handler of line 159
\* evaluates i+1 with i unbound, UnboundLocalError leaves process_file
\* through the async with, which releases the semaphore
ReadFails(t) ==
    /\ pc[t] = "read"
    /\ idx[t] = Unbound
    /\ pc' = [pc EXCEPT ![t] = "crashed"]
    /\ sem' = sem + 1
    /\ UNCHANGED <<provider, apiKey, environ, concurrency, maxTokens,
                   inputTree, mainpc, warned, files, idx, calls, fails, got,
                   written, failed, errlog, qna, attrib, qnaWriters,
                   chunkVars>>

\* Caught that leaves the semaphore as it is
CaughtKeepsSlot(t) ==
    /\ idx[t] # Unbound
    /\ failed' = failed \cup {CurJob(t)}
    /\ errlog' = [errlog EXCEPT ![<<Catalogue[t].stem, idx[t] + 1>>] = @ + 1]
    /\ sem' = sem
    /\ pc' = [pc EXCEPT ![t] = "done"]

\* lines 158-159 with i bound: the error is logged with file_path.name and
\* i+1, and the async with releases the semaphore; the for loop is left
Caught(t) ==
    /\ idx[t] # Unbound
    /\ failed' = failed \cup {CurJob(t)}
    /\ errlog' = [errlog EXCEPT ![<<Catalogue[t].stem, idx[t] + 1>>] = @ + 1]
    /\ sem' = sem + 1
    /\ pc' = [pc EXCEPT ![t] = "done"]

\* a stop condition that lets one attempt too many through
StopOneLate(n) == n > MaxAttempts

\* tenacity stop_after_attempt(3) (lines 99, 121): no retry after attempt n
StopAfterAttempt(n) == n >= MaxAttempts

\* an attempt of call_openai / call_ollama raises: tenacity waits and starts
\* the next attempt inside the same call_model, or, the budget spent, raises
\* RetryError into process_file
AttemptFails(t) ==
    /\ pc[t] = "call"
    /\ CanRun(t)
    /\ fails' = [fails EXCEPT ![CurJob(t)] = @ + 1]
    /\ IF StopAfterAttempt(calls[CurJob(t)])
       THEN /\ Caught(t)
            /\ UNCHANGED calls
       ELSE /\ calls' = [calls EXCEPT ![CurJob(t)] = @ + 1]
            /\ UNCHANGED <<failed, errlog, sem, pc>>
    /\ UNCHANGED <<provider, apiKey, environ, concurrency, maxTokens,
                   inputTree, mainpc, warned, files, idx, got, written, qna,
                   attrib, qnaWriters, chunkVars>>

\* an attempt returns the reply text: call_model returns it (line 153)
AttemptSucceeds(t) ==
    /\ pc[t] = "call"
    /\ CanRun(t)
    /\ got' = [got EXCEPT ![CurJob(t)] = TRUE]
    /\ pc' = [pc EXCEPT ![t] = "write_qna"]
    /\ UNCHANGED <<provider, apiKey, environ, concurrency, maxTokens,
                   inputTree, mainpc, warned, files, sem, idx, calls, fails,
                   written, failed, errlog, qna, attrib, qnaWriters,
                   chunkVars>>

\* lines 154-156: write_file(out_path, output); the output is the reply to
\* this job's prompt
WriteQnaOk(t) ==
    /\ pc[t] = "write_qna"
    /\ LET p == OutPath(t, idx[t] + 1)
       IN  /\ qna' = [qna EXCEPT ![p] = CurJob(t)]
           /\ qnaWriters' = [qnaWriters EXCEPT ![p] = @ \cup {CurJob(t)}]
    /\ written' = [written EXCEPT ![CurJob(t)] = "qna"]
    /\ pc' = [pc EXCEPT ![t] = "write_attr"]
    /\ UNCHANGED <<provider, apiKey, environ, concurrency, maxTokens,
                   inputTree, mainpc, warned, files, sem, idx, calls, fails,
                   got, failed, errlog, attrib, chunkVars>>

\* a failed write that is logged inside the loop, which goes on with the
\* next chunk
WriteQnaFailsContinues(t) ==
    /\ pc[t] = "write_qna"
    /\ failed' = failed \cup {CurJob(t)}
    /\ errlog' = [errlog EXCEPT ![<<Catalogue[t].stem, idx[t] + 1>>] = @ + 1]
    /\ IF idx[t] + 1 < Len(Chunks(t))
       THEN /\ idx' = [idx EXCEPT ![t] = @ + 1]
            /\ calls' = [calls EXCEPT ![<<t, idx[t] + 2>>] = 1]
            /\ pc' = [pc EXCEPT ![t] = "call"]
            /\ UNCHANGED sem
       ELSE /\ pc' = [pc EXCEPT ![t] = "done"]
            /\ sem' = sem + 1
            /\ UNCHANGED <<idx, calls>>
    /\ UNCHANGED <<provider, apiKey, environ, concurrency, maxTokens,
                   inputTree, mainpc, warned, files, fails, got, written,
                   qna, attrib, qnaWriters, chunkVars>>

\* write_file raises (mkdir or write_text fails)
WriteQnaFails(t) ==
    /\ pc[t] = "write_qna"
    /\ Caught(t)
    /\ UNCHANGED <<provider, apiKey, environ, concurrency, maxTokens,
                   inputTree, mainpc, warned, files, idx, calls, fails, got,
                   written, qna, attrib, qnaWriters, chunkVars>>

\* line 157: write_attribution; then the next iteration starts its
\* call_model, or the loop ends and the semaphore is released
WriteAttrOk(t) ==
    /\ pc[t] = "write_attr"
    /\ attrib' = [attrib EXCEPT ![OutPath(t, idx[t] + 1)] = <<t>>]
    /\ written' = [written EXCEPT ![CurJob(t)] = "both"]
    /\ IF idx[t] + 1 < Len(Chunks(t))
       THEN /\ idx' = [idx EXCEPT ![t] = @ + 1]
            /\ calls' = [calls EXCEPT ![<<t, idx[t] + 2>>] = 1]
            /\ pc' = [pc EXCEPT ![t] = "call"]
            /\ UNCHANGED sem
       ELSE /\ pc' = [pc EXCEPT ![t] = "done"]
            /\ sem' = sem + 1
            /\ UNCHANGED <<idx, calls>>
    /\ UNCHANGED <<provider, apiKey, environ, concurrency, maxTokens,
                   inputTree, mainpc, warned, files, fails, got, failed,
                   errlog, qna, qnaWriters, chunkVars>>

\* write_attribution raises
WriteAttrFails(t) ==
    /\ pc[t] = "write_attr"
    /\ Caught(t)
    /\ UNCHANGED <<provider, apiKey, environ, concurrency, maxTokens,
                   inputTree, mainpc, warned, files, idx, calls, fails, got,
                   written, qna, attrib, qnaWriters, chunkVars>>

----------------------------------------------------------------------------
(* main *)

\* `not args.api_key`: None and the empty string count as no key
NoCredential(k) == k \in {NoKey, ""}

\* CheckCredential without the test of the key
CheckCredentialNoTest ==
    /\ mainpc = "start"
    /\ IF provider = "openai"
       THEN environ' = apiKey
       ELSE UNCHANGED environ
    /\ mainpc' = "discover"
    /\ UNCHANGED <<provider, apiKey, concurrency, maxTokens, inputTree,
                   warned, files, sem, pc, idx, calls, fails, got, written,
                   failed, errlog, qna, attrib, qnaWriters, chunkVars>>

\* lines 179-182: the key is required for openai and exported to the
\* environment; without it ValueError leaves main
CheckCredential ==
    /\ mainpc = "start"
    /\ IF provider = "openai"
       THEN IF NoCredential(apiKey)
            THEN /\ mainpc' = "config_error"
                 /\ UNCHANGED environ
            ELSE /\ environ' = apiKey
                 /\ mainpc' = "discover"
       ELSE /\ mainpc' = "discover"
            /\ UNCHANGED environ
    /\ UNCHANGED <<provider, apiKey, concurrency, maxTokens, inputTree,
                   warned, files, sem, pc, idx, calls, fails, got, written,
                   failed, errlog, qna, attrib, qnaWriters, chunkVars>>

\* line 184: files = list(Path(args.input_dir).rglob("*.md"))
Discover ==
    /\ mainpc = "discover"
    /\ files' = inputTree
    /\ mainpc' = "found"
    /\ UNCHANGED <<provider, apiKey, environ, concurrency, maxTokens,
                   inputTree, warned, sem, pc, idx, calls, fails, got,
                   written, failed, errlog, qna, attrib, qnaWriters,
                   chunkVars>>

\* NoFiles without the return: the warning, then the semaphore and gather
NoFilesNoReturn ==
    /\ mainpc = "found"
    /\ files = {}
    /\ warned' = TRUE
    /\ sem' = concurrency
    /\ mainpc' = "gather"
    /\ UNCHANGED <<provider, apiKey, environ, concurrency, maxTokens,
                   inputTree, files, pc, idx, calls, fails, got, written,
                   failed, errlog, qna, attrib, qnaWriters, chunkVars>>

\* lines 185-187: no file, a warning and a normal return
NoFiles ==
    /\ mainpc = "found"
    /\ files = {}
    /\ warned' = TRUE
    /\ mainpc' = "returned"
    /\ UNCHANGED <<provider, apiKey, environ, concurrency, maxTokens,
                   inputTree, files, sem, pc, idx, calls, fails, got,
                   written, failed, errlog, qna, attrib, qnaWriters,
                   chunkVars>>

\* lines 189-190: the semaphore is created and asyncio.gather makes one
\* process_file task per file
Gather ==
    /\ mainpc = "found"
    /\ files # {}
    /\ sem' = concurrency
    /\ pc' = [t \in Docs |-> IF t \in files THEN "created" ELSE pc[t]]
    /\ mainpc' = "gather"
    /\ UNCHANGED <<provider, apiKey, environ, concurrency, maxTokens,
                   inputTree, warned, files, idx, calls, fails, got, written,
                   failed, errlog, qna, attrib, qnaWriters, chunkVars>>

\* line 190: every task has returned, gather returns and main ends
GatherReturns ==
    /\ mainpc = "gather"
    /\ MainCanRun
    /\ \A t \in files : pc[t] = "done"
    /\ mainpc' = "returned"
    /\ UNCHANGED <<provider, apiKey, environ, concurrency, maxTokens,
                   inputTree, warned, files, sem, pc, idx, calls, fails, got,
                   written, failed, errlog, qna, attrib, qnaWriters,
                   chunkVars>>

\* lines 190, 193: gather re-raises the exception of a task into main, main
\* ends with it and asyncio.run cancels the tasks still pending: a task
\* waiting for the semaphore ends, a task inside call_model gets
\* CancelledError, which `except Exception` does not catch, and releases
\* the semaphore. The slot the failed task released was handed to a waiting
\* task before main is resumed, so a task still waits only when no slot is
\* free
GatherRaises ==
    /\ mainpc = "gather"
    /\ MainCanRun
    /\ \E t \in files : pc[t] = "crashed"
    /\ \A t \in files : pc[t] = "created" => sem = 0
    /\ mainpc' = "crashed"
    /\ pc' = [t \in Docs |->
                IF pc[t] \in {"created", "call"} THEN "cancelled" ELSE pc[t]]
    /\ sem' = sem + Cardinality({t \in Docs : pc[t] = "call"})
    /\ UNCHANGED <<provider, apiKey, environ, concurrency, maxTokens,
                   inputTree, warned, files, idx, calls, fails, got, written,
                   failed, errlog, qna, attrib, qnaWriters, chunkVars>>

----------------------------------------------------------------------------
(* The run of the pipeline *)

\* provider and key as argparse accepts them
Configs == {<<"ollama", NoKey>>, <<"openai", NoKey>>, <<"openai", "">>,
            <<"openai", "sk">>}

\* nothing has run: no task, no semaphore, an empty output tree
PipeIdle ==
    /\ environ = NoKey
    /\ mainpc = "start"
    /\ warned = FALSE
    /\ files = {}
    /\ sem = NoSem
    /\ pc = [t \in Docs |-> "none"]
    /\ idx = [t \in Docs |-> Unbound]
    /\ calls = [j \in Jobs |-> 0]
    /\ fails = [j \in Jobs |-> 0]
    /\ got = [j \in Jobs |-> FALSE]
    /\ written = [j \in Jobs |-> "none"]
    /\ failed = {}
    /\ errlog = [k \in LogKeys |-> 0]
    /\ qna = [p \in Paths |-> Nothing]
    /\ attrib = [p \in Paths |-> Nothing]
    /\ qnaWriters = [p \in Paths |-> {}]

ChunkIdle ==
    /\ ctext = <<>>
    /\ climit = 1
    /\ cparts = <<>>
    /\ cstate = "idle"

Init ==
    /\ \E c \in Configs : provider = c[1] /\ apiKey = c[2]
    /\ concurrency \in 1..MaxN
    /\ maxTokens \in TokenChoices
    /\ inputTree \in {S \in SUBSET Docs : Cardinality(S) <= MaxDocs}
    /\ PipeIdle
    /\ ChunkIdle

Next ==
    \/ CheckCredential
    \/ Discover
    \/ NoFiles
    \/ Gather
    \/ GatherReturns
    \/ GatherRaises
    \/ \E t \in Docs : Acquire(t)
    \/ \E t \in Docs : ReadOk(t)
    \/ \E t \in Docs : ReadFails(t)
    \/ \E t \in Docs : AttemptFails(t)
    \/ \E t \in Docs : AttemptSucceeds(t)
    \/ \E t \in Docs : WriteQnaOk(t)
    \/ \E t \in Docs : WriteQnaFails(t)
    \/ \E t \in Docs : WriteAttrOk(t)
    \/ \E t \in Docs : WriteAttrFails(t)

Spec == Init /\ [][Next]_vars

\* the same run over input trees of one more document, enough for
\* concurrency + 2 documents when the concurrency is 1
InitMoreDocs ==
    /\ \E c \in Configs : provider = c[1] /\ apiKey = c[2]
    /\ concurrency \in 1..MaxN
    /\ maxTokens \in TokenChoices
    /\ inputTree \in {S \in SUBSET Docs : Cardinality(S) <= MaxDocs + 1}
    /\ PipeIdle
    /\ ChunkIdle

SpecMoreDocs == InitMoreDocs /\ [][Next]_vars

----------------------------------------------------------------------------
(* chunk_text on its own: every text over a letter and the line break up  *)
(* to MaxTextLen characters, every limit up to MaxLimit                   *)

Alphabet == {"a", NL}
Texts == UNION {[1..n -> Alphabet] : n \in 0..MaxTextLen}

InitChunk ==
    /\ provider = "ollama"
    /\ apiKey = NoKey
    /\ concurrency = 1
    /\ maxTokens = 1
    /\ inputTree = {}
    /\ PipeIdle
    /\ ctext \in Texts
    /\ climit \in 1..MaxLimit
    /\ cparts = <<>>
    /\ cstate = "input"

\* parts = chunk_text(text, limit)
CallChunkText ==
    /\ cstate = "input"
    /\ cparts' = chunk_text(ctext, climit)
    /\ cstate' = "done"
    /\ UNCHANGED <<ctext, climit, pipeVars>>

NextChunk == CallChunkText

SpecChunk == InitChunk /\ [][NextChunk]_vars

----------------------------------------------------------------------------
(* Properties *)

\* tasks inside call_model (an attempt or the wait between two attempts)
InFlight == {t \in Docs : pc[t] = "call"}

\* the chunk numbers of document t
ChunkNos(t) == 1..Len(Chunks(t))

\* both files of the job's artifact were written by the job
HasArtifact(j) == written[j] = "both"

\* C1: at most `concurrency` backend calls (attempts and the waits between
\* them) are in flight in any reachable state.
ConcurrencyBound == Cardinality(InFlight) <= concurrency

\* C1 witness: the limit is reached while another task waits for a slot and
\* a call in flight is retrying after a failed attempt.
ConcurrencyBoundWitness ==
    /\ Cardinality(InFlight) = concurrency
    /\ \E t \in Docs : pc[t] = "created"
    /\ \E t \in InFlight : fails[CurJob(t)] >= 1

\* C2: when main returns, every chunk of every discovered document has
\* exactly one outcome: its artifact was written or its failure was recorded.
NoJobDropped ==
    mainpc = "returned" =>
        \A t \in files : \A k \in ChunkNos(t) :
            HasArtifact(<<t, k>>) # (<<t, k>> \in failed)

\* document t had a failure: an exception in process_file, caught or not
DocFailed(t) == pc[t] = "crashed" \/ \E k \in ChunkIdx : <<t, k>> \in failed

\* document t was stopped from outside with a chunk that neither failed nor
\* got its artifact
Prevented(t) ==
    /\ pc[t] = "cancelled"
    /\ \E k \in ChunkNos(t) : ~HasArtifact(<<t, k>>) /\ <<t, k>> \notin failed

\* C3: a failure while processing document A leaves no artifact for the
\* failing chunk and stops no other document B from writing its artifacts.
Isolation ==
    \A a \in files : DocFailed(a) =>
        /\ \A k \in ChunkIdx : <<a, k>> \in failed => ~HasArtifact(<<a, k>>)
        /\ \A b \in files \ {a} : ~Prevented(b)

\* C4: when main returns, every chunk of a document other than a failed
\* chunk of it was dispatched to the backend.
SiblingsDispatched ==
    mainpc = "returned" =>
        \A t \in files : \A k \in ChunkNos(t), j \in ChunkNos(t) :
            (<<t, k>> \in failed /\ j # k) => calls[<<t, j>>] >= 1

\* C5: a chunk job makes at most 3 backend attempts and none after a
\* success (two failures then a success are exactly 3 calls); the file
\* written after a success holds that job's output whatever the number of
\* failed attempts; 3 failed attempts end in a recorded failure without
\* artifact.
RetryBudget ==
    /\ \A j \in Jobs :
        /\ calls[j] <= MaxAttempts
        /\ got[j] => calls[j] = fails[j] + 1
        /\ written[j] # "none" => got[j]
        /\ fails[j] = MaxAttempts =>
              /\ ~got[j]
              /\ j \in failed
              /\ errlog[<<Catalogue[j[1]].stem, j[2]>>] >= 1
              /\ written[j] = "none"
    /\ \A t \in Docs :
        pc[t] = "write_attr" => qna[OutPath(t, idx[t] + 1)] = CurJob(t)

\* C5 witness: one job succeeded on its third attempt and has its artifact,
\* another failed three times.
RetryBudgetWitness ==
    /\ \E j \in Jobs : got[j] /\ fails[j] = 2 /\ calls[j] = 3 /\ HasArtifact(j)
    /\ \E j \in Jobs : fails[j] = MaxAttempts /\ j \in failed

\* C6: no exception leaves process_file or asyncio.gather: main does not
\* end with an exception once the configuration is valid.
RunCompletes == mainpc # "crashed" /\ \A t \in Docs : pc[t] # "crashed"

\* C7: no qna.yaml is written by two distinct jobs of one run.
NoWriteContention == \A p \in Paths : Cardinality(qnaWriters[p]) <= 1

\* C8: every chunk returned by chunk_text is at most `limit` characters
\* long, unless it is one source line longer than the limit.
ChunkBound ==
    cstate = "done" =>
        \A k \in 1..Len(cparts) :
            \/ Len(cparts[k]) <= climit
            \/ /\ \A i \in 1..Len(cparts[k]) : cparts[k][i] # NL
               /\ Len(cparts[k]) > climit

RECURSIVE SplitAll(_, _, _)
\* text.split("\n"): the pieces between line breaks
SplitAll(text, cur, acc) ==
    IF text = <<>> THEN Append(acc, cur)
    ELSE IF Head(text) = NL
         THEN SplitAll(Tail(text), <<>>, Append(acc, cur))
         ELSE SplitAll(Tail(text), Append(cur, Head(text)), acc)

\* the lines of the chunks joined in order by the line break
JoinedLines(parts) ==
    IF parts = <<>> THEN <<>> ELSE SplitAll(join(parts), <<>>, <<>>)

\* C9: the chunks of chunk_text joined in order by the line break hold the
\* lines of the text: the same lines in the same order, none added or lost.
ChunkCoverage == cstate = "done" => JoinedLines(cparts) = splitlines(ctext)

\* C10: with provider openai and no key, main never gets past the test of
\* the key: no file is discovered, no task or semaphore exists, no backend
\* attempt is made and nothing is written.
MissingCredentialFatal ==
    (provider = "openai" /\ NoCredential(apiKey)) =>
        /\ mainpc \in {"start", "config_error"}
        /\ files = {}
        /\ sem = NoSem
        /\ \A t \in Docs : pc[t] = "none"
        /\ \A j \in Jobs : calls[j] = 0 /\ written[j] = "none"
        /\ \A p \in Paths : qna[p] = Nothing /\ attrib[p] = Nothing

\* C10 witness: main ended with the configuration error although the input
\* tree holds documents.
MissingCredentialWitness == mainpc = "config_error" /\ inputTree # {}

\* tasks inside `async with semaphore`: they hold a slot
Holding == {t \in Docs : pc[t] \in {"read", "call", "write_qna", "write_attr"}}

\* C11: a document whose text is empty has no chunk, so no backend attempt
\* is made and nothing is written or logged for it, and when its task has
\* ended normally its slot is free again.
EmptyDocument ==
    \A t \in files : Catalogue[t].text = <<>> =>
        /\ Chunks(t) = <<>>
        /\ \A k \in ChunkIdx :
              /\ calls[<<t, k>>] = 0
              /\ written[<<t, k>>] = "none"
              /\ <<t, k>> \notin failed
              /\ errlog[<<Catalogue[t].stem, k>>] = 0
        /\ pc[t] \notin {"call", "write_qna", "write_attr"}
        /\ pc[t] = "done" => sem = concurrency - Cardinality(Holding)

\* C11 witness: the task of an empty document has ended and main returned.
EmptyDocumentWitness ==
    /\ mainpc = "returned"
    /\ \E t \in files : Catalogue[t].text = <<>> /\ pc[t] = "done"

RECURSIVE SectionLoop(_, _, _, _, _)
\* the algorithm as section 4.1 words it: the pending group is sealed before
\* a line only when the line would push the count above the limit and the
\* group is not empty
SectionLoop(lines, limit, parts, current, total) ==
    IF lines = <<>>
    THEN IF current # <<>> THEN Append(parts, join(current)) ELSE parts
    ELSE LET line == Head(lines)
             line_len == Len(line)
             seal == total + line_len > limit /\ current # <<>>
             parts1 == IF seal THEN Append(parts, join(current)) ELSE parts
             current1 == IF seal THEN <<>> ELSE current
             total1 == IF seal THEN 0 ELSE total
         IN  SectionLoop(Tail(lines), limit, parts1,
                         Append(current1, line), total1 + line_len)

SectionChunks(text, limit) ==
    SectionLoop(splitlines(text), limit, <<>>, <<>>, 0)

\* C12: chunk_text returns the chunks of the section 4.1 algorithm, which
\* seals the pending group only when it is not empty.
ComputesSectionAlgorithm ==
    cstate = "done" => cparts = SectionChunks(ctext, climit)

\* the first chunk of document t that has not been sent to the backend
NextUndispatched(t, k) ==
    /\ k \in ChunkNos(t)
    /\ calls[<<t, k>>] = 0
    /\ k = 1 \/ calls[<<t, k - 1>>] >= 1

\* chunk k of document t can be sent without another backend call ending
\* first: its task only has to take the free slot
Dispatchable(t, k) == k = 1 /\ ENABLED Acquire(t)

SlotAccounting ==
    sem # NoSem =>
        /\ sem \in 0..concurrency
        /\ sem = concurrency - Cardinality(Holding)
        /\ mainpc \in {"returned", "crashed"} => sem = concurrency

\* a task waiting for a slot leaves the wait only by acquiring one
WaitEndsInAcquire ==
    \A t \in Docs : pc[t] = "created" => pc'[t] \in {"created", "read"}

\* C14: a task holds exactly one slot from acquisition to its end, through
\* every retry; the slot is released on every path; the held slots stay in
\* 0..N and are 0 when the run ends; a task waiting for a slot gets one,
\* and the run does not stop before main has ended.
SlotsReleasedAndTerminates ==
    /\ [](SlotAccounting)
    /\ [](mainpc \in {"returned", "crashed", "config_error"} \/ ENABLED Next)
    /\ [][WaitEndsInAcquire]_vars

\* the log line of a failed job: file_path.name and i+1
LogKey(j) == <<Catalogue[j[1]].stem, j[2]>>

\* C15: every failure caught in process_file is logged with the name of
\* its document and the number of the chunk that failed, one line per
\* failed chunk and none for any other chunk, and the handler itself never
\* fails for want of a chunk index.
FailureRecordsIdentifyChunk ==
    /\ \A key \in LogKeys :
          errlog[key] = Cardinality({j \in failed : LogKey(j) = key})
    /\ \A j \in failed : fails[j] = MaxAttempts \/ got[j]
    /\ \A t \in Docs : pc[t] = "crashed" => idx[t] # Unbound

\* C16: the qna.yaml of <slug>-part-<k> holds the backend output for chunk
\* k of a document with that slug: right after a job's write it holds that
\* job's output, and it never holds the output of a chunk with another
\* number.
ChunkIndexTagging ==
    /\ \A p \in Paths : qna[p] # Nothing =>
          /\ qna[p][2] = p[2]
          /\ slugify(Catalogue[qna[p][1]].stem) = p[1]
    /\ \A t \in Docs : pc[t] = "write_attr" =>
          qna[<<slugify(Catalogue[t].stem), idx[t] + 1>>] = CurJob(t)

\* C16 witness: both chunks of a document are in their own part
\* directories while another document has written an artifact too.
ChunkIndexTaggingWitness ==
    \E d \in files, e \in files :
        /\ d # e
        /\ HasArtifact(<<d, 1>>) /\ HasArtifact(<<d, 2>>)
        /\ qna[<<slugify(Catalogue[d].stem), 1>>] = <<d, 1>>
        /\ qna[<<slugify(Catalogue[d].stem), 2>>] = <<d, 2>>
        /\ HasArtifact(<<e, 1>>)

\* C17: a qna.yaml is written only after its chunk's call succeeded and an
\* attribution.txt only after the qna.yaml beside it, so a directory with
\* attribution.txt has qna.yaml, and the directory of a chunk whose backend
\* call failed has neither file.
ArtifactWriteOrder ==
    /\ \A j \in Jobs : written[j] # "none" => got[j]
    /\ \A p \in Paths : attrib[p] # Nothing => qna[p] # Nothing
    /\ \A j \in Jobs : fails[j] = MaxAttempts =>
          /\ qna[OutPath(j[1], j[2])] = Nothing
          /\ attrib[OutPath(j[1], j[2])] = Nothing

\* C18: when the search finds no file, main warns and returns; no
\* semaphore, no task, no backend attempt and no file is ever made.
NoInputDocuments ==
    inputTree = {} =>
        /\ mainpc \in {"start", "config_error", "discover", "found",
                       "returned"}
        /\ mainpc = "returned" => warned
        /\ sem = NoSem
        /\ \A t \in Docs : pc[t] = "none"
        /\ \A j \in Jobs : calls[j] = 0 /\ written[j] = "none"
        /\ \A p \in Paths : qna[p] = Nothing /\ attrib[p] = Nothing

\* C18 witness: main has warned and returned on an empty input tree.
NoInputDocumentsWitness ==
    inputTree = {} /\ mainpc = "returned" /\ warned

\* C19: inside a document the chunks go to the backend in increasing
\* order, one call at a time, chunk k+1 only after both files of chunk k
\* are written; the document holds its slot all along, so at most
\* `concurrency` documents are in progress.
PerDocumentSequencing ==
    /\ \A t \in Docs : \A k \in ChunkIdx :
          (k + 1 \in ChunkIdx /\ calls[<<t, k + 1>>] >= 1) =>
              HasArtifact(<<t, k>>)
    /\ \A t \in Docs : pc[t] = "call" =>
          \A k \in ChunkIdx :
              /\ k < idx[t] + 1 => HasArtifact(<<t, k>>)
              /\ k > idx[t] + 1 => calls[<<t, k>>] = 0
    /\ Cardinality(Holding) <= concurrency
    /\ sem # NoSem => sem = concurrency - Cardinality(Holding)

\* C19 witness: a document is calling the backend for its second chunk,
\* the first one written, while every slot is held and a document waits.
PerDocumentSequencingWitness ==
    /\ \E t \in files :
          pc[t] = "call" /\ idx[t] = 1 /\ HasArtifact(<<t, 1>>)
    /\ Cardinality(Holding) = concurrency
    /\ \E u \in files : pc[u] = "created"

====
